---------------------------- MODULE Spec2Model ----------------------------
(***************************************************************************)
(* Model of the profile-scoring pipeline of GitHub-Analyzer                *)
(* (src/analyzer.py): compute_profile_analysis and the extractors it       *)
(* calls.  One analysis is a state machine: user lookup, repository        *)
(* listing, per-repository README / commits / dependency files, event      *)
(* list, scoring.  Every HTTP response is an input chosen by the           *)
(* environment.                                                            *)
(*                                                                         *)
(* Representation.                                                         *)
(*  - Text is a sequence of one-character strings.                         *)
(*  - An instant is a whole number of hours since an epoch, in UTC; the    *)
(*    GitHub API renders every instant with the suffix "Z".                *)
(*  - Python floats are kept exact as scaled integers: account-age points  *)
(*    and the base score are numerators over DaysPerYear (365), and a      *)
(*    value rounded to two decimals is held in hundredths.                 *)
(*  - An HTTP response is a record [kind, ...]: kind "ok" is status 200    *)
(*    with a decodable body, "status" any other status, "neterr" an        *)
(*    exception raised by requests.get, "badjson" a 200 whose body makes   *)
(*    resp.json() raise, "nocontent" a file answer without a content       *)
(*    field, "undecodable" a file answer whose content does not decode.    *)
(***************************************************************************)
EXTENDS Integers, Sequences, FiniteSets, TLC

VARIABLES
    pc,              \* position in compute_profile_analysis
    user_data,       \* the user record, or None
    repos,           \* the repository listing
    idx,             \* number of loop iterations of `for r in repos[:5]` completed
    readme,          \* the README text fetched last, or None
    commits,         \* the commit list fetched last
    day_counts,      \* its day -> count histogram
    suspicious,      \* its suspicious flag
    found_deps,      \* the dependency tokens found last
    readme_score,
    commit_score,
    readme_checks,
    warnings,
    score_breakdown,
    events,
    pr_count,
    issues_count,
    lang_counter,
    has_ai,
    has_crypto,
    account_age_points,  \* numerator over DaysPerYear
    base_score,          \* numerator over DaysPerYear
    result,          \* what the caller has: Pending, Raised or Returned(dict)
    calls            \* the requests issued so far, in order, each with the kind
                     \* of response it got

vars == <<pc, user_data, repos, idx, readme, commits, day_counts, suspicious,
          found_deps, readme_score, commit_score, readme_checks, warnings,
          score_breakdown, events, pr_count, issues_count, lang_counter,
          has_ai, has_crypto, account_age_points, base_score, result, calls>>

\* A value that may be None is a tuple of length 0 (None) or 1 (the value).
None == <<>>
Some(x) == <<x>>
Get(o) == o[1]

\* What the caller has: nothing yet, an exception, or the returned dict.
Pending == [kind |-> "pending"]
Raised == [kind |-> "raised"]
Returned(v) == [kind |-> "returned", value |-> v]

---------------------------------------------------------------------------
(* Program constants *)

HoursPerDay == 24
DaysPerYear == 365
AgeCap == 365
AgeMaxPoints == 10
ReadmeMinLen == 200
ReadmePoints == 2
CommitDayCap == 5
DeepLimit == 5
BioBlogPoints == 5
FlagPoints == 3
ScoreCap == 30
BurstCommits == 10
LowDays == 5
LowCommits == 20
WindowDays == 30

---------------------------------------------------------------------------
(* Generic helpers *)

Min(a, b) == IF a < b THEN a ELSE b

\* round(n/d, 0) for d > 0; no input of the model is an exact half.
RoundDiv(n, d) == (2 * n + d) \div (2 * d)

\* s[:n]
Prefix(s, n) == SubSeq(s, 1, Min(Len(s), n))

---------------------------------------------------------------------------
(* Text: str.lower and the substring test `k in text` *)

\* str.lower on each character
LowerOf ==
    [A |-> "a", B |-> "b", C |-> "c", D |-> "d", E |-> "e", F |-> "f", G |-> "g",
     H |-> "h", I |-> "i", J |-> "j", K |-> "k", L |-> "l", M |-> "m", N |-> "n",
     O |-> "o", P |-> "p", Q |-> "q", R |-> "r", S |-> "s", T |-> "t", U |-> "u",
     V |-> "v", W |-> "w", X |-> "x", Y |-> "y", Z |-> "z"]

LowerChar(c) == IF c \in DOMAIN LowerOf THEN LowerOf[c] ELSE c

Lower(text) == SubSeq([i \in 1..Len(text) |-> LowerChar(text[i])], 1, Len(text))

Contains(text, k) ==
    \E i \in 1..(Len(text) - Len(k) + 1) :
        \A j \in 1..Len(k) : text[i + j - 1] = k[j]

\* text padded with spaces to n characters
Pad(text, n) == text \o SubSeq([i \in 1..n |-> " "], 1, n - Len(text))

---------------------------------------------------------------------------
(* README depth *)

README_KEYWORDS == <<
    <<"i","n","s","t","a","l","l","a","t","i","o","n">>,   \* installation
    <<"u","s","a","g","e">>,   \* usage
    <<"g","e","t","t","i","n","g"," ","s","t","a","r","t","e","d">>,   \* getting started
    <<"e","x","a","m","p","l","e">>,   \* example
    <<"h","o","w"," ","t","o">>,   \* how to
    <<"s","e","t","u","p">>,   \* setup
    <<"t","u","t","o","r","i","a","l">>,   \* tutorial
    <<"d","o","c","u","m","e","n","t","a","t","i","o","n">>   \* documentation
>>

\* the keyword test on the text as written, not lower-cased
is_deep_readme_cased(readme_text) ==
    IF readme_text = None \/ Get(readme_text) = <<>>
       \/ Len(Get(readme_text)) < ReadmeMinLen
    THEN FALSE
    ELSE \E i \in 1..Len(README_KEYWORDS) : Contains(Get(readme_text), README_KEYWORDS[i])

\* is_deep_readme(readme_text)
is_deep_readme(readme_text) ==
    IF readme_text = None \/ Get(readme_text) = <<>>
       \/ Len(Get(readme_text)) < ReadmeMinLen
    THEN FALSE
    ELSE LET text_lower == Lower(Get(readme_text))
         IN  \E i \in 1..Len(README_KEYWORDS) : Contains(text_lower, README_KEYWORDS[i])

---------------------------------------------------------------------------
(* Commit cadence *)

\* the "%Y-%m-%d" day of an instant
DayOf(date) == date \div HoursPerDay

\* Counter: c[k] += 1
Incr(counter, k) ==
    IF k \in DOMAIN counter
    THEN [counter EXCEPT ![k] = @ + 1]
    ELSE [x \in DOMAIN counter \cup {k} |-> IF x = k THEN 1 ELSE counter[x]]

EmptyCounter == [x \in {} |-> 0]

RECURSIVE CounterTotal(_)
CounterTotal(counter) ==
    IF DOMAIN counter = {} THEN 0
    ELSE LET k == CHOOSE x \in DOMAIN counter : TRUE
         IN  counter[k] + CounterTotal([x \in DOMAIN counter \ {k} |-> counter[x]])

RECURSIVE CountDays(_, _)
CountDays(cs, counter) ==
    IF cs = <<>> THEN counter
    ELSE CountDays(Tail(cs), Incr(counter, DayOf(Head(cs).date)))

\* the single-day-burst rule alone
SuspiciousBurstOnly(ndays, total) == ndays = 1 /\ total > BurstCommits

SuspiciousRule(ndays, total) ==
    IF ndays = 1 /\ total > BurstCommits THEN TRUE
    ELSE IF ndays < LowDays /\ total < LowCommits THEN TRUE
    ELSE FALSE

\* analyze_commit_frequency(commits): [day_counts, suspicious]
analyze_commit_frequency(cs) ==
    LET dc == CountDays(cs, EmptyCounter)
    IN  [day_counts |-> dc,
         suspicious |-> SuspiciousRule(Cardinality(DOMAIN dc), CounterTotal(dc))]

\* the day count without the cap of 5
CommitActivityUncapped(dc) == Cardinality(DOMAIN dc)

\* line 266: min(len(day_counts), 5)
CommitActivityPoints(dc) == Min(Cardinality(DOMAIN dc), CommitDayCap)

---------------------------------------------------------------------------
(* Language and keyword detection *)

AI_KEYWORDS == {
    <<"t","e","n","s","o","r","f","l","o","w">>,   \* tensorflow
    <<"p","y","t","o","r","c","h">>,   \* pytorch
    <<"s","c","i","k","i","t","-","l","e","a","r","n">>,   \* scikit-learn
    <<"t","o","r","c","h">>,   \* torch
    <<"k","e","r","a","s">>,   \* keras
    <<"m","x","n","e","t">>,   \* mxnet
    <<"o","p","e","n","a","i">>,   \* openai
    <<"t","r","a","n","s","f","o","r","m","e","r","s">>,   \* transformers
    <<"n","a","t","u","r","a","l"," ","l","a","n","g","u","a","g","e"," ","p","r","o","c","e","s","s","i","n","g">>,   \* natural language processing
    <<"n","l","p">>,   \* nlp
    <<"m","a","c","h","i","n","e"," ","l","e","a","r","n","i","n","g">>,   \* machine learning
    <<"m","l">>,   \* ml
    <<"d","e","e","p"," ","l","e","a","r","n","i","n","g">>   \* deep learning
}

CRYPTO_KEYWORDS == {
    <<"s","o","l","i","d","i","t","y">>,   \* solidity
    <<"r","u","s","t">>,   \* rust
    <<"w","e","b","3">>,   \* web3
    <<"w","e","b","3",".","j","s">>,   \* web3.js
    <<"e","t","h","e","r","s",".","j","s">>,   \* ethers.js
    <<"n","f","t">>,   \* nft
    <<"s","m","a","r","t"," ","c","o","n","t","r","a","c","t">>,   \* smart contract
    <<"b","l","o","c","k","c","h","a","i","n">>,   \* blockchain
    <<"d","e","c","e","n","t","r","a","l","i","z","e","d">>,   \* decentralized
    <<"d","e","f","i">>,   \* defi
    <<"d","a","o">>,   \* dao
    <<"c","r","y","p","t","o","c","u","r","r","e","n","c","y">>,   \* cryptocurrency
    <<"b","i","t","c","o","i","n">>,   \* bitcoin
    <<"e","t","h","e","r","e","u","m">>,   \* ethereum
    <<"d","a","p","p">>   \* dapp
}

AI_LANGUAGES == {"Python", "JavaScript", "TypeScript", "Rust", "C++", "Java"}
CRYPTO_LANGUAGES == {"Solidity", "Rust", "JavaScript", "TypeScript", "Go", "C++"}

\* the AI and crypto tests of one repository (topics, then description)
RepoTopics(r) == {Lower(r.topics[i]) : i \in 1..Len(r.topics)}
RepoDesc(r) == IF r.description = None THEN <<>> ELSE Lower(Get(r.description))
RepoHits(r, keywords) ==
    \/ \E topics \in {RepoTopics(r)} : \E kw \in keywords : kw \in topics
    \/ \E desc \in {RepoDesc(r)} : \E kw \in keywords : Contains(desc, kw)

RECURSIVE CountLanguages(_, _)
CountLanguages(rs, counter) ==
    IF rs = <<>> THEN counter
    ELSE CountLanguages(Tail(rs),
             IF Head(rs).language # None /\ Get(Head(rs).language) # ""
             THEN Incr(counter, Get(Head(rs).language))
             ELSE counter)

\* the scan in which the last repository alone decides the flag
RECURSIVE ScanFlagLast(_, _, _)
ScanFlagLast(rs, keywords, flag) ==
    IF rs = <<>> THEN flag
    ELSE ScanFlagLast(Tail(rs), keywords, RepoHits(Head(rs), keywords))

RECURSIVE ScanFlag(_, _, _)
ScanFlag(rs, keywords, flag) ==
    IF rs = <<>> THEN flag
    ELSE ScanFlag(Tail(rs), keywords, IF RepoHits(Head(rs), keywords) THEN TRUE ELSE flag)

\* detect_languages(repos): [lang_counter, has_ai, has_crypto]
detect_languages(rs) ==
    LET lc == CountLanguages(rs, EmptyCounter)
        languages == DOMAIN lc
        ai == ScanFlag(rs, AI_KEYWORDS, FALSE)
        crypto == ScanFlag(rs, CRYPTO_KEYWORDS, FALSE)
    IN  [lang_counter |-> lc,
         has_ai |-> IF languages \cap AI_LANGUAGES # {} THEN TRUE ELSE ai,
         has_crypto |-> IF languages \cap CRYPTO_LANGUAGES # {} THEN TRUE ELSE crypto]

---------------------------------------------------------------------------
(* Dependency files *)

possible_files == <<"requirements.txt", "environment.yml", "Pipfile",
                    "package.json", "Cargo.toml">>

AI_LIBS == <<
    <<"t","e","n","s","o","r","f","l","o","w">>,   \* tensorflow
    <<"t","o","r","c","h">>,   \* torch
    <<"p","y","t","o","r","c","h">>,   \* pytorch
    <<"s","c","i","k","i","t","-","l","e","a","r","n">>,   \* scikit-learn
    <<"k","e","r","a","s">>,   \* keras
    <<"m","x","n","e","t">>,   \* mxnet
    <<"t","r","a","n","s","f","o","r","m","e","r","s">>   \* transformers
>>

CRYPTO_LIBS == <<
    <<"w","e","b","3">>,   \* web3
    <<"e","t","h","e","r","s">>,   \* ethers
    <<"s","o","l","i","d","i","t","y">>,   \* solidity
    <<"r","u","s","t">>,   \* rust
    <<"b","i","t","c","o","i","n">>,   \* bitcoin
    <<"e","t","h","e","r","e","u","m">>   \* ethereum
>>


\* the library tokens found in one decoded, lower-cased file
LibsIn(content) ==
    {AI_LIBS[i] : i \in {j \in 1..Len(AI_LIBS) : Contains(content, AI_LIBS[j])}}
    \cup {CRYPTO_LIBS[i] : i \in {j \in 1..Len(CRYPTO_LIBS) : Contains(content, CRYPTO_LIBS[j])}}

\* One file's response: "ok" (200, "content" present and decodable),
\* "nocontent" (200 without "content"), "undecodable" (200, decoding raises and
\* is caught and logged), "status" (not 200), "neterr" (requests.get raises),
\* "badjson" (200 whose body is not JSON: resp.json() raises outside the try).
RECURSIVE ScanFiles(_, _, _)
ScanFiles(resps, found, asked) ==
    IF resps = <<>> THEN [raised |-> FALSE, found_deps |-> found, asked |-> asked]
    ELSE LET resp == Head(resps)
         IN  IF resp.kind \in {"neterr", "badjson"}
             THEN [raised |-> TRUE, found_deps |-> found, asked |-> asked + 1]
             ELSE IF resp.kind = "ok"
                  THEN ScanFiles(Tail(resps), found \cup LibsIn(Lower(resp.content)),
                                 asked + 1)
                  ELSE ScanFiles(Tail(resps), found, asked + 1)

\* check_requirements_files(repo): resps[i] answers possible_files[i]
check_requirements_files(resps) == ScanFiles(resps, {}, 0)

---------------------------------------------------------------------------
(* Pull requests and issues of the last 30 days *)

RECURSIVE CountEvents(_, _, _, _)
CountEvents(evs, cutoff, prs, issues) ==
    IF evs = <<>> THEN [pr_count |-> prs, issues_count |-> issues]
    ELSE LET ev == Head(evs)
         IN  IF ev.created_at < cutoff
             THEN CountEvents(Tail(evs), cutoff, prs, issues)
             ELSE IF ev.type = "PullRequestEvent"
                  THEN CountEvents(Tail(evs), cutoff, prs + 1, issues)
                  ELSE IF ev.type = "IssuesEvent"
                       THEN CountEvents(Tail(evs), cutoff, prs, issues + 1)
                       ELSE CountEvents(Tail(evs), cutoff, prs, issues)

\* the window with its boundary instant left out
analyze_boundary_excluded(evs, now) ==
    CountEvents(evs, now - WindowDays * HoursPerDay + 1, 0, 0)

\* analyze_pull_requests_and_issues(events) called at instant now
analyze_pull_requests_and_issues(evs, now) ==
    CountEvents(evs, now - WindowDays * HoursPerDay, 0, 0)

---------------------------------------------------------------------------
(* Paginated listings: fetch_repos, fetch_commits, fetch_user_events *)

\* pages[i] answers the request for page i: "ok" with its items, "status"
\* (not 200), "neterr" or "badjson".  The loop stops at the first page that is not 200
\* or is empty; a page never asked for is not in the list.
RECURSIVE Paginate(_, _, _)
Paginate(pages, items, asked) ==
    IF pages = <<>> THEN [raised |-> FALSE, items |-> items, asked |-> asked]
    ELSE LET resp == Head(pages)
         IN  IF resp.kind \in {"neterr", "badjson"}
             THEN [raised |-> TRUE, items |-> items, asked |-> asked + 1]
             ELSE IF resp.kind # "ok"
             THEN [raised |-> FALSE, items |-> items, asked |-> asked + 1]
             ELSE IF resp.items = <<>>
             THEN [raised |-> FALSE, items |-> items, asked |-> asked + 1]
             ELSE Paginate(Tail(pages), items \o resp.items, asked + 1)

---------------------------------------------------------------------------
(* Language bar chart *)

\* first index of a language in the listing (Counter insertion order)
FirstIndex(rs, lang) ==
    CHOOSE i \in 1..Len(rs) :
        /\ rs[i].language = Some(lang)
        /\ \A j \in 1..(i - 1) : rs[j].language # Some(lang)

\* Counter.most_common(): by count, descending; ties in insertion order
RECURSIVE MostCommon(_, _, _)
MostCommon(rs, counter, left) ==
    IF left = {} THEN <<>>
    ELSE LET best == CHOOSE l \in left : \A m \in left \ {l} :
                         \/ counter[l] > counter[m]
                         \/ /\ counter[l] = counter[m]
                            /\ FirstIndex(rs, l) < FirstIndex(rs, m)
         IN  <<best>> \o MostCommon(rs, counter, left \ {best})

\* ascii_bar_chart(counter): None for "No data.", else one line per language
ascii_bar_chart(rs, counter) ==
    IF DOMAIN counter = {} THEN None
    ELSE LET total == CounterTotal(counter)
             order == MostCommon(rs, counter, DOMAIN counter)
         IN  Some([i \in 1..Len(order) |->
                      [lang |-> order[i],
                       bar_len |-> (counter[order[i]] * 20) \div total,
                       count |-> counter[order[i]]]])

---------------------------------------------------------------------------
(* Scoring: lines 280-345 of compute_profile_analysis *)

\* dict.get(key): None when the key is absent or null
DictGet(d, k) == IF k \in DOMAIN d THEN d[k] ELSE None

\* truthiness of an optional string
Truthy(o) == o # None /\ Get(o) # ""

\* (now - created_dt).days
AgeDays(now, created_at) == (now - created_at) \div HoursPerDay

\* the ramp without its saturation at 10
AccountAgeUnsaturated(ud, now) ==
    IF DictGet(ud, "created_at") = None THEN 0
    ELSE AgeDays(now, Get(DictGet(ud, "created_at"))) * AgeMaxPoints

\* account_age_points, as a numerator over DaysPerYear
AccountAgePoints(ud, now) ==
    LET account_created_str == DictGet(ud, "created_at")
    IN  IF account_created_str = None THEN 0
        ELSE LET account_age_days == AgeDays(now, Get(account_created_str))
             IN  IF account_age_days > AgeCap
                 THEN AgeMaxPoints * DaysPerYear
                 ELSE account_age_days * AgeMaxPoints

PrIssuesPoints(prs, issues) == (prs * 2) + issues

ProfileBioBlogPoints(ud) ==
    IF Truthy(DictGet(ud, "bio")) \/ Truthy(DictGet(ud, "blog"))
    THEN BioBlogPoints ELSE 0

AiCryptoPoints(ai, crypto) ==
    (IF ai THEN FlagPoints ELSE 0) + (IF crypto THEN FlagPoints ELSE 0)

\* the base score without the biography and blog category
BaseScoreWithoutProfile(ud, now, rscore, cscore, prs, issues, ai, crypto) ==
    AccountAgePoints(ud, now)
    + DaysPerYear * (rscore + cscore + PrIssuesPoints(prs, issues)
                     + AiCryptoPoints(ai, crypto))

\* base_score, as a numerator over DaysPerYear
BaseScore(ud, now, rscore, cscore, prs, issues, ai, crypto) ==
    AccountAgePoints(ud, now)
    + DaysPerYear * (rscore + cscore + PrIssuesPoints(prs, issues)
                     + ProfileBioBlogPoints(ud) + AiCryptoPoints(ai, crypto))

\* the final score without the min(base_score, 30)
FinalScoreUncapped(base) == RoundDiv(base * 100 * 100, ScoreCap * DaysPerYear)

\* round(min(base_score, 30) / 30 * 100, 2), in hundredths
FinalScore(base) ==
    RoundDiv(Min(base, ScoreCap * DaysPerYear) * 100 * 100, ScoreCap * DaysPerYear)

\* round(account_age_points, 2), in hundredths
RoundedAgePoints(aap) == RoundDiv(aap * 100, DaysPerYear)

ErrorMarker == [error |-> "User not found"]

---------------------------------------------------------------------------
(* The analysis *)

\* the instant at which the analysis runs
Now == 800 * HoursPerDay

InitBreakdown ==
    [account_age_points |-> 0, readme_points |-> 0, commit_points |-> 0,
     pr_issues_points |-> 0, profile_bio_blog_points |-> 0, ai_crypto_points |-> 0]

Init ==
    /\ pc = "start"
    /\ user_data = None
    /\ repos = <<>>
    /\ idx = 0
    /\ readme = None
    /\ commits = <<>>
    /\ day_counts = EmptyCounter
    /\ suspicious = FALSE
    /\ found_deps = {}
    /\ readme_score = 0
    /\ commit_score = 0
    /\ readme_checks = <<>>
    /\ warnings = <<>>
    /\ score_breakdown = InitBreakdown
    /\ events = <<>>
    /\ pr_count = 0
    /\ issues_count = 0
    /\ lang_counter = EmptyCounter
    /\ has_ai = FALSE
    /\ has_crypto = FALSE
    /\ account_age_points = 0
    /\ base_score = 0
    /\ result = Pending
    /\ calls = <<>>

\* an exception leaves compute_profile_analysis
Raise ==
    /\ pc' = "done"
    /\ result' = Raised

\* lines 229-232: the user lookup
FetchUser(Responses) ==
    /\ pc = "start"
    /\ \E resp \in Responses :
        /\ calls' = Append(calls, <<"user", resp.kind>>)
        /\ IF resp.kind \in {"neterr", "badjson"}
           THEN /\ Raise
                /\ UNCHANGED user_data
           ELSE LET ud == IF resp.kind = "ok" THEN Some(resp.body) ELSE None
                IN  /\ user_data' = ud
                    /\ IF \/ ud = None
                          \/ DOMAIN Get(ud) = {}
                          \/ DictGet(Get(ud), "message") = Some("Not Found")
                       THEN /\ pc' = "done"
                            /\ result' = Returned(ErrorMarker)
                       ELSE /\ pc' = "repos"
                            /\ UNCHANGED result
    /\ UNCHANGED <<repos, idx, readme, commits, day_counts, suspicious, found_deps,
                   readme_score, commit_score, readme_checks, warnings,
                   score_breakdown, events, pr_count, issues_count, lang_counter,
                   has_ai, has_crypto, account_age_points, base_score>>

\* the loop header without the [:5] window
LoopNextUnwindowed(rs, done) == IF done < Len(rs) THEN "readme" ELSE "events"

\* the position after the loop header `for r in repos[:5]` is evaluated
LoopNext(rs, done) == IF done < Len(Prefix(rs, DeepLimit)) THEN "readme" ELSE "events"

\* lines 234-249: the repository listing and the initial values
FetchRepos(Listings) ==
    /\ pc = "repos"
    /\ \E pages \in Listings : \E got \in {Paginate(pages, <<>>, 0)} :
            /\ calls' = calls \o [i \in 1..got.asked |-> <<"repos", i, pages[i].kind>>]
            /\ IF got.raised
               THEN /\ Raise
                    /\ UNCHANGED repos
               ELSE /\ repos' = got.items
                    /\ pc' = LoopNext(got.items, 0)
                    /\ UNCHANGED result
    /\ readme_score' = 0
    /\ commit_score' = 0
    /\ readme_checks' = <<>>
    /\ score_breakdown' = InitBreakdown
    /\ UNCHANGED <<user_data, idx, readme, commits, day_counts, suspicious,
                   found_deps, warnings, events, pr_count, issues_count,
                   lang_counter, has_ai, has_crypto, account_age_points, base_score>>

ReadmeWarning(name) == [repo |-> name, text |-> "Shallow or missing README."]
CommitWarning(name) == [repo |-> name, text |-> "Suspicious commit pattern."]

\* lines 252-258: one repository's README
FetchReadme(Responses) ==
    /\ pc = "readme"
    /\ LET r == repos[idx + 1]
       IN  \E resp \in Responses :
            /\ calls' = Append(calls, <<"readme", r.name, resp.kind>>)
            /\ IF resp.kind \in {"neterr", "badjson"}
               THEN /\ Raise
                    /\ UNCHANGED <<readme, readme_score, score_breakdown, warnings>>
               ELSE LET text == IF resp.kind = "ok" THEN Some(resp.content) ELSE None
                    IN  /\ readme' = text
                        /\ IF is_deep_readme(text)
                           THEN /\ readme_score' = readme_score + ReadmePoints
                                /\ score_breakdown' =
                                       [score_breakdown EXCEPT !.readme_points = @ + ReadmePoints]
                                /\ UNCHANGED warnings
                           ELSE /\ warnings' = Append(warnings, ReadmeWarning(r.name))
                                /\ UNCHANGED <<readme_score, score_breakdown>>
                        /\ pc' = "commits"
                        /\ UNCHANGED result
    /\ UNCHANGED <<user_data, repos, idx, commits, day_counts, suspicious, found_deps,
                   commit_score, readme_checks, events, pr_count, issues_count,
                   lang_counter, has_ai, has_crypto, account_age_points, base_score>>

\* lines 260-268: one repository's commits
FetchCommits(Listings) ==
    /\ pc = "commits"
    /\ LET r == repos[idx + 1]
       IN  \E pages \in Listings : \E got \in {Paginate(pages, <<>>, 0)} :
           \E acf \in {analyze_commit_frequency(got.items)} :
            LET commit_activity_points == CommitActivityPoints(acf.day_counts)
            IN  /\ calls' = calls \o [i \in 1..got.asked |->
                                         <<"commits", r.name, i, pages[i].kind>>]
                /\ IF got.raised
                   THEN /\ Raise
                        /\ UNCHANGED <<commits, day_counts, suspicious, commit_score,
                                       score_breakdown, warnings>>
                   ELSE /\ commits' = got.items
                        /\ day_counts' = acf.day_counts
                        /\ suspicious' = acf.suspicious
                        /\ IF acf.suspicious
                           THEN /\ warnings' = Append(warnings, CommitWarning(r.name))
                                /\ UNCHANGED <<commit_score, score_breakdown>>
                           ELSE /\ commit_score' = commit_score + commit_activity_points
                                /\ score_breakdown' =
                                       [score_breakdown EXCEPT
                                            !.commit_points = @ + commit_activity_points]
                                /\ UNCHANGED warnings
                        /\ pc' = "deps"
                        /\ UNCHANGED result
    /\ UNCHANGED <<user_data, repos, idx, readme, found_deps, readme_score,
                   readme_checks, events, pr_count, issues_count, lang_counter,
                   has_ai, has_crypto, account_age_points, base_score>>

\* lines 270-272: one repository's dependency files, and the loop header
CheckRequirements(FileResponses) ==
    /\ pc = "deps"
    /\ LET r == repos[idx + 1]
       IN  \E resps \in FileResponses : \E got \in {check_requirements_files(resps)} :
                /\ calls' = calls \o [i \in 1..got.asked |->
                                         <<"file", r.name, possible_files[i], resps[i].kind>>]
                /\ IF got.raised
                   THEN /\ Raise
                        /\ UNCHANGED <<found_deps, readme_checks, idx>>
                   ELSE /\ found_deps' = got.found_deps
                        /\ readme_checks' =
                               IF got.found_deps # {}
                               THEN Append(readme_checks,
                                           [repo |-> r.name, deps |-> got.found_deps])
                               ELSE readme_checks
                        /\ idx' = idx + 1
                        /\ pc' = LoopNext(repos, idx + 1)
                        /\ UNCHANGED result
    /\ UNCHANGED <<user_data, repos, readme, commits, day_counts, suspicious,
                   readme_score, commit_score, warnings, score_breakdown, events,
                   pr_count, issues_count, lang_counter, has_ai, has_crypto,
                   account_age_points, base_score>>

\* lines 274-275: the event list and the 30-day counts
FetchEvents(Listings) ==
    /\ pc = "events"
    /\ \E pages \in Listings : \E got \in {Paginate(pages, <<>>, 0)} :
        LET counts == analyze_pull_requests_and_issues(got.items, Now)
        IN  /\ calls' = calls \o [i \in 1..got.asked |-> <<"events", i, pages[i].kind>>]
            /\ IF got.raised
               THEN /\ Raise
                    /\ UNCHANGED <<events, pr_count, issues_count>>
               ELSE /\ events' = got.items
                    /\ pr_count' = counts.pr_count
                    /\ issues_count' = counts.issues_count
                    /\ pc' = "score"
                    /\ UNCHANGED result
    /\ UNCHANGED <<user_data, repos, idx, readme, commits, day_counts, suspicious,
                   found_deps, readme_score, commit_score, readme_checks, warnings,
                   score_breakdown, lang_counter, has_ai, has_crypto,
                   account_age_points, base_score>>

\* lines 277-345: detection, scoring and the returned dict
Score ==
    /\ pc = "score"
    /\ \E dl \in {detect_languages(repos)} :
       LET ud == Get(user_data)
           aap == AccountAgePoints(ud, Now)
           base == BaseScore(ud, Now, readme_score, commit_score, pr_count,
                             issues_count, dl.has_ai, dl.has_crypto)
           breakdown ==
               [score_breakdown EXCEPT
                    !.account_age_points = RoundedAgePoints(aap),
                    !.pr_issues_points = PrIssuesPoints(pr_count, issues_count),
                    !.profile_bio_blog_points = ProfileBioBlogPoints(ud),
                    !.ai_crypto_points = AiCryptoPoints(dl.has_ai, dl.has_crypto)]
       IN  /\ lang_counter' = dl.lang_counter
           /\ has_ai' = dl.has_ai
           /\ has_crypto' = dl.has_crypto
           /\ account_age_points' = aap
           /\ base_score' = base
           /\ score_breakdown' = breakdown
           /\ result' = Returned(
                  [user_data |-> ud,
                   repo_data |-> repos,
                   readme_checks |-> readme_checks,
                   commit_patterns |-> <<>>,
                   pull_requests_30d |-> pr_count,
                   issues_30d |-> issues_count,
                   lang_counter |-> dl.lang_counter,
                   has_ai |-> dl.has_ai,
                   has_crypto |-> dl.has_crypto,
                   score |-> FinalScore(base),
                   warnings |-> warnings,
                   ascii_lang_chart |-> ascii_bar_chart(repos, dl.lang_counter),
                   score_breakdown |-> breakdown,
                   twitter_user |-> DictGet(ud, "twitter_username"),
                   blog |-> DictGet(ud, "blog")])
    /\ pc' = "done"
    /\ UNCHANGED <<user_data, repos, idx, readme, commits, day_counts, suspicious,
                   found_deps, readme_score, commit_score, readme_checks, warnings,
                   events, pr_count, issues_count, calls>>

---------------------------------------------------------------------------
(* The environment: what the GitHub API may answer *)

MaxRepos == 6       \* longest repository listing
MaxEvents == 16     \* most events of one kind in an event list

\* responses of the paginated endpoints
OkPage(items) == [kind |-> "ok", items |-> items]
FailPage(kind) == [kind |-> kind, items |-> <<>>]
\* responses of the content endpoints (README, dependency files)
OkFile(content) == [kind |-> "ok", content |-> content]
FailFile(kind) == [kind |-> kind, content |-> <<>>]
\* responses of the user endpoint
OkUser(body) == [kind |-> "ok", body |-> body]
FailUser(kind) == [kind |-> kind, body |-> <<>>]

Days(n) == n * HoursPerDay

\* a user record created `age` hours before the analysis
UserBody(age, bio, blog) ==
    [login |-> Some("octocat"), created_at |-> Some(Now - age), bio |-> bio,
     blog |-> blog, twitter_username |-> None]
NotFoundBody == [message |-> Some("Not Found")]

\* the i-th repository of a listing: the sixth and later ones carry the only
\* languages of the AI and crypto language sets
RepoAt(i) ==
    [name |-> <<"repo", i>>,
     owner |-> "octocat",
     language |-> IF i \in {2, 3} THEN Some("Ruby")
                  ELSE IF i = 4 THEN Some("HTML")
                  ELSE IF i = 6 THEN Some("Python")
                  ELSE IF i > 6 THEN Some("Go")
                  ELSE None,
     topics |-> <<>>,
     description |-> IF i = 1 THEN None ELSE Some(<<"n","o","t","e","s">>)]
Listing(n) == [i \in 1..n |-> RepoAt(i)]

\* a listing of n repositories served as one page and the empty page that ends it
OnePage(items) == IF items = <<>> THEN <<OkPage(<<>>)>> ELSE <<OkPage(items), OkPage(<<>>)>>

\* README texts
DeepText == Pad(<<"#"," ","S","e","t","u","p">>, ReadmeMinLen)

\* n commits spread over the d days before Now
MkCommits(d, n) ==
    [i \in 1..n |-> [date |-> Now - Days(1 + (i % d)) + ((i \div d) % HoursPerDay)]]
Steady == MkCommits(6, 25)
Burst == MkCommits(1, 11)

\* an event list of p pull-request events and q issue events inside the window
MkEvents(p, q) ==
    [i \in 1..(p + q) |->
        [type |-> IF i <= p THEN "PullRequestEvent" ELSE "IssuesEvent",
         created_at |-> Now - Days(i)]]

\* the five dependency files, none of them with content
NoFiles == [i \in 1..Len(possible_files) |-> FailFile("status")]

(* Spec: listings of every length, each endpoint answering or not *)

UserResponses ==
    {FailUser("status"), OkUser(NotFoundBody),
     OkUser(UserBody(Days(400), Some("dev"), None))}

RepoListings ==
    {OnePage(Listing(n)) : n \in 0..MaxRepos}
    \cup {<<FailPage("status")>>,
          <<OkPage(SubSeq(Listing(MaxRepos), 1, 2)),
            OkPage(SubSeq(Listing(MaxRepos), 3, MaxRepos)), OkPage(<<>>)>>}

ReadmeResponses == {OkFile(DeepText), FailFile("status")}

CommitListings == {OnePage(Steady), <<FailPage("status")>>}

FileResponses == {NoFiles}

EventListings == {OnePage(MkEvents(1, 1)), <<FailPage("status")>>}

(* SpecFaults: every kind of response of every endpoint, short listings *)

MaxFaultRepos == 2

FaultUserResponses ==
    {FailUser("neterr"), FailUser("badjson"), FailUser("status"),
     OkUser(NotFoundBody), OkUser(<<>>),
     OkUser(UserBody(Days(400), Some("dev"), None))}

FaultRepoListings ==
    {OnePage(Listing(n)) : n \in 0..MaxFaultRepos}
    \cup {<<FailPage("status")>>, <<FailPage("neterr")>>,
          <<OkPage(Listing(1)), FailPage("status")>>,
          <<OkPage(Listing(1)), FailPage("badjson")>>}

FaultReadmeResponses ==
    {OkFile(DeepText), FailFile("status"), FailFile("nocontent"),
     FailFile("neterr"), FailFile("badjson")}

FaultCommitListings ==
    {OnePage(Steady), <<FailPage("status")>>, <<FailPage("neterr")>>,
     <<OkPage(Steady), FailPage("status")>>, <<OkPage(Steady), FailPage("badjson")>>}

FaultFileResponses ==
    {NoFiles,
     [NoFiles EXCEPT ![1] = OkFile(<<"F","l","a","s","k","\n","T","o","r","c","h">>)],
     [NoFiles EXCEPT ![2] = FailFile("undecodable"), ![4] = FailFile("nocontent")],
     [NoFiles EXCEPT ![3] = FailFile("neterr")],
     [NoFiles EXCEPT ![5] = FailFile("badjson")]}

FaultEventListings ==
    {OnePage(MkEvents(1, 1)), <<FailPage("status")>>, <<FailPage("neterr")>>,
     <<OkPage(MkEvents(2, 0)), FailPage("status")>>}

Pipeline(U, L, R, C, D, E) ==
    \/ FetchUser(U)
    \/ FetchRepos(L)
    \/ FetchReadme(R)
    \/ FetchCommits(C)
    \/ CheckRequirements(D)
    \/ FetchEvents(E)
    \/ Score

Next ==
    Pipeline(UserResponses, RepoListings, ReadmeResponses, CommitListings,
             FileResponses, EventListings)

Spec == Init /\ [][Next]_vars

NextFaults ==
    Pipeline(FaultUserResponses, FaultRepoListings, FaultReadmeResponses,
             FaultCommitListings, FaultFileResponses, FaultEventListings)

SpecFaults == Init /\ [][NextFaults]_vars

(* SpecScore: the inputs of the score *)

\* a listing whose flags come from a topic (first repository) and from a
\* description (second repository)
TaggedRepoAt(i) ==
    [name |-> <<"repo", i>>,
     owner |-> "octocat",
     language |-> IF i = 2 THEN Some("Shell") ELSE None,
     topics |-> IF i = 1 THEN << <<"P","y","T","o","r","c","h">> >> ELSE <<>>,
     description |-> IF i = 2 THEN Some(<<"A"," ","D","e","F","i"," ","d","A","p","p">>)
                     ELSE None]
Tagged(n) == [i \in 1..n |-> TaggedRepoAt(i)]

ScoreUserResponses ==
    {OkUser(UserBody(0, None, None)),
     OkUser(UserBody(Days(1) + 5, None, None)),
     OkUser(UserBody(Days(100), Some("dev"), None)),
     OkUser(UserBody(Days(364) + 23, None, Some("https://example.org"))),
     OkUser(UserBody(Days(365), Some(""), Some(""))),
     OkUser(UserBody(Days(700), Some("dev"), Some("https://example.org"))),
     OkUser([login |-> Some("octocat"), bio |-> Some("dev")])}

ScoreRepoListings ==
    {OnePage(Listing(n)) : n \in 0..MaxRepos}
    \cup {OnePage(Tagged(1)), OnePage(Tagged(2))}

ScoreEventListings ==
    {OnePage(MkEvents(p, q)) : p \in {0, 1, MaxEvents}, q \in {0, 2}}

NextScore ==
    Pipeline(ScoreUserResponses, ScoreRepoListings, ReadmeResponses, CommitListings,
             FileResponses, ScoreEventListings)

SpecScore == Init /\ [][NextScore]_vars

(* SpecCadence: one repository, commit lists of every shape *)

MaxDays == 6        \* most distinct days of a commit list
MaxCommits == 25    \* most commits of a commit list

CadenceCommitListings ==
    {OnePage(MkCommits(d, n)) : d \in 1..MaxDays, n \in 1..MaxCommits}
    \cup {OnePage(<<>>),
          <<OkPage(MkCommits(2, 12)), OkPage(MkCommits(5, 10)), OkPage(<<>>)>>}

OneUser == {OkUser(UserBody(Days(400), Some("dev"), None))}
OneRepo == {OnePage(Listing(1))}
NoReadme == {FailFile("status")}
NoEvents == {OnePage(<<>>)}

NextCadence ==
    Pipeline(OneUser, OneRepo, NoReadme, CadenceCommitListings, FileResponses, NoEvents)

SpecCadence == Init /\ [][NextCadence]_vars

(* SpecCommits: listings of every length, a few commit histories *)

FewCommitListings ==
    {OnePage(Burst), OnePage(MkCommits(3, 3)), OnePage(MkCommits(4, 20)),
     OnePage(Steady), <<FailPage("status")>>}

NextCommits ==
    Pipeline(OneUser, RepoListings, NoReadme, FewCommitListings, FileResponses, NoEvents)

SpecCommits == Init /\ [][NextCommits]_vars

(* SpecReadme: listings of every length, README texts around the thresholds *)

SetupText == <<"S","e","t","u","p"," ","g","u","i","d","e">>
ReadmeTexts ==
    {<<>>,
     SetupText,
     Pad(SetupText, ReadmeMinLen - 1),
     Pad(SetupText, ReadmeMinLen),
     Pad(<<"h","e","l","l","o">>, ReadmeMinLen + 50),
     Pad(<<"x">>, ReadmeMinLen - 15)
         \o <<"G","E","T","T","I","N","G"," ","S","T","A","R","T","E","D">>}

TextReadmeResponses ==
    {OkFile(t) : t \in ReadmeTexts} \cup {FailFile("status"), FailFile("nocontent")}

OneCommitListing == {OnePage(Steady)}

NextReadme ==
    Pipeline(OneUser, RepoListings, TextReadmeResponses, OneCommitListing,
             FileResponses, NoEvents)

SpecReadme == Init /\ [][NextReadme]_vars

(* SpecAge: accounts of every age in days, early and late in the day *)

MaxAgeDays == 367

AgeUserResponses ==
    {OkUser(UserBody(Days(d) + h, None, None)) : d \in 0..MaxAgeDays, h \in {0, 23}}

NextAge ==
    Pipeline(AgeUserResponses, OneRepo, NoReadme, OneCommitListing, FileResponses,
             NoEvents)

SpecAge == Init /\ [][NextAge]_vars

(* SpecWindow: event lists around the 30-day cutoff *)

MaxListedEvents == 3

\* events of the three kinds of type, created an hour before the cutoff, at
\* the cutoff, an hour after it, and a day before Now
WindowEvents ==
    {[type |-> t, created_at |-> at] :
        t \in {"PullRequestEvent", "IssuesEvent", "PushEvent"},
        at \in {Now - Days(WindowDays) - 1, Now - Days(WindowDays),
                Now - Days(WindowDays) + 1, Now - Days(1)}}

WindowEventListings ==
    {OnePage(evs) : evs \in UNION {[1..n -> WindowEvents] : n \in 0..MaxListedEvents}}

NextWindow ==
    Pipeline(OneUser, OneRepo, NoReadme, OneCommitListing, FileResponses,
             WindowEventListings)

SpecWindow == Init /\ [][NextWindow]_vars

(* SpecDetect: listings of tagged, described and typed repositories *)

MaxDetectRepos == 3

\* a repository without language, topic or description
PlainRepo ==
    [name |-> <<"repo", 0>>, owner |-> "octocat", language |-> None,
     topics |-> <<>>, description |-> None]

\* repositories that differ from the plain one in one field: a topic that is
\* a keyword in mixed case, a topic that only contains a keyword, a
\* description holding crypto keywords, a description whose word "html"
\* holds the keyword "ml", and primary languages inside and outside the two
\* language sets
DetectRepos ==
    {PlainRepo,
     [PlainRepo EXCEPT !.topics = << <<"P","y","T","o","r","c","h">> >>],
     [PlainRepo EXCEPT !.topics = << <<"t","o","r","c","h","v","i","s","i","o","n">> >>],
     [PlainRepo EXCEPT !.description = Some(<<"A"," ","D","e","F","i"," ","d","A","p","p">>)],
     [PlainRepo EXCEPT !.description = Some(<<"h","t","m","l"," ","p","a","g","e","s">>)],
     [PlainRepo EXCEPT !.language = Some("Solidity")],
     [PlainRepo EXCEPT !.language = Some("Python")],
     [PlainRepo EXCEPT !.language = Some("Ruby")]}

DetectRepoListings ==
    {OnePage([i \in 1..Len(rs) |-> [rs[i] EXCEPT !.name = <<"repo", i>>]]) :
        rs \in UNION {[1..n -> DetectRepos] : n \in 1..MaxDetectRepos}}
    \cup {OnePage(<<>>)}

NextDetect ==
    Pipeline(OneUser, DetectRepoListings, NoReadme, OneCommitListing, FileResponses,
             NoEvents)

SpecDetect == Init /\ [][NextDetect]_vars

(* SpecDeps: repositories with and without dependency findings *)

MaxDepsRepos == 3

DepsUserResponses ==
    {OkUser(UserBody(Days(100), Some("dev"), None)),
     OkUser(UserBody(Days(364) + 23, None, None)),
     OkUser(UserBody(Days(400), None, Some("https://example.org")))}

DepsRepoListings == {OnePage(Listing(n)) : n \in 0..MaxDepsRepos}

DepsCommitListings == {OnePage(Steady), OnePage(Burst)}

\* no dependency file, a requirements.txt naming torch, a package.json naming
\* web3 and ethers
DepsFileResponses ==
    {NoFiles,
     [NoFiles EXCEPT ![1] = OkFile(<<"F","l","a","s","k","\n","T","o","r","c","h">>)],
     [NoFiles EXCEPT ![4] = OkFile(<<"w","e","b","3"," ","e","t","h","e","r","s">>)]}

DepsEventListings == {OnePage(<<>>), OnePage(MkEvents(1, 1))}

NextDeps ==
    Pipeline(DepsUserResponses, DepsRepoListings, ReadmeResponses, DepsCommitListings,
             DepsFileResponses, DepsEventListings)

SpecDeps == Init /\ [][NextDeps]_vars

---------------------------------------------------------------------------
(* Vocabulary of the properties *)

ResultFields ==
    {"user_data", "repo_data", "readme_checks", "commit_patterns",
     "pull_requests_30d", "issues_30d", "lang_counter", "has_ai", "has_crypto",
     "score", "warnings", "ascii_lang_chart", "score_breakdown", "twitter_user",
     "blog"}
BreakdownFields ==
    {"account_age_points", "readme_points", "commit_points", "pr_issues_points",
     "profile_bio_blog_points", "ai_crypto_points"}

Done == pc = "done"
ReturnedError == result = Returned(ErrorMarker)
ReturnedFull ==
    /\ result.kind = "returned"
    /\ DOMAIN result.value = ResultFields
    /\ DOMAIN result.value.score_breakdown = BreakdownFields
Threw == result.kind = "raised"

\* the user lookup failed (no 200 answer) or indicated absence
LookupFailed ==
    /\ calls # <<>>
    /\ \/ calls[1][2] # "ok"
       \/ user_data = None
       \/ DOMAIN Get(user_data) = {}
       \/ DictGet(Get(user_data), "message") = Some("Not Found")
LookupSucceeded == calls # <<>> /\ ~LookupFailed

CallKind(c) == c[Len(c)]
CallsOf(what) == {i \in 1..Len(calls) : calls[i][1] = what}
RepoCalls == {i \in 1..Len(calls) : calls[i][1] \in {"readme", "commits", "file"}}
WarningTexts == {ReadmeWarning(None).text, CommitWarning(None).text}

---------------------------------------------------------------------------
(* C3: compute_profile_analysis returns exactly the error marker when the  *)
(* user lookup fails or indicates absence, having issued no other fetch;   *)
(* in every other case the caller receives a fully populated result.       *)
(* Stated for every finished analysis; the code violates it when a fetch   *)
(* raises (see C4).                                                        *)
C3_ErrorMarkerOrFullResult ==
    Done =>
        IF LookupFailed
        THEN ReturnedError /\ Len(calls) = 1
        ELSE ReturnedFull

(* C4: once the user lookup has succeeded, no failure of a later fetch     *)
(* aborts the analysis or reaches the caller as a thrown fault: every      *)
(* repository of the window is still processed and a complete result is    *)
(* returned.                                                               *)
C4_LaterFailuresContained ==
    (Done /\ LookupSucceeded) =>
        /\ ~Threw
        /\ ReturnedFull
        /\ idx = Len(Prefix(repos, DeepLimit))

\* a request of one of the four signals that did not deliver its content
FailedSignal(c) ==
    /\ c[1] \in {"readme", "commits", "file", "events"}
    /\ CallKind(c) # "ok"

\* warning w reports the failure of request c
Reports(w, c) ==
    IF c[1] = "readme" THEN w = ReadmeWarning(c[2])
    ELSE IF c[1] = "commits" THEN w = CommitWarning(c[2])
    ELSE w.text \notin WarningTexts

(* C5: every per-signal fetch failure (README, commit list, dependency     *)
(* file, event list) appends a warning to the warnings of the returned     *)
(* result; no such failure is silent in the result.                        *)
C5_EveryFailureWarned ==
    (Done /\ ReturnedFull) =>
        \A i \in 1..Len(calls) :
            FailedSignal(calls[i]) =>
                \E k \in 1..Len(result.value.warnings) :
                    Reports(result.value.warnings[k], calls[i])

\* the position in the listing of the repository a request names
RepoIndex(name) == CHOOSE k \in 1..Len(repos) : repos[k].name = name

\* the step of the analysis a request belongs to: user lookup, repository
\* listing, then README, commits and dependency files of repository 1, 2, ...,
\* then the event list
Rank(c) ==
    IF c[1] = "user" THEN 0
    ELSE IF c[1] = "repos" THEN 1
    ELSE IF c[1] = "readme" THEN 3 * RepoIndex(c[2])
    ELSE IF c[1] = "commits" THEN 3 * RepoIndex(c[2]) + 1
    ELSE IF c[1] = "file" THEN 3 * RepoIndex(c[2]) + 2
    ELSE 3 * (Len(repos) + 1)

\* the number of repositories of the full listing with a primary language
LanguageCount(lang) ==
    Cardinality({k \in 1..Len(repos) : repos[k].language = Some(lang)})
ListedLanguages ==
    {Get(repos[k].language) : k \in {j \in 1..Len(repos) : repos[j].language # None}}

(* C6: within one analysis the requests are issued in the order user       *)
(* lookup, repository listing, then for each inspected repository its      *)
(* README, commits and dependency files, then the event list, and scoring  *)
(* comes last; only the first 5 repositories of the listing are inspected, *)
(* however long it is, while the language histogram and the AI/crypto      *)
(* flags are computed from the full listing.                               *)
C6_OrderAndWindow ==
    /\ \A i, j \in 1..Len(calls) : i < j => Rank(calls[i]) <= Rank(calls[j])
    /\ calls # <<>> => calls[1][1] = "user" /\ Cardinality(CallsOf("user")) = 1
    /\ \A i \in RepoCalls : RepoIndex(calls[i][2]) <= DeepLimit
    /\ \A i \in RepoCalls : RepoIndex(calls[i][2]) <= idx + 1
    /\ \A k \in 1..idx :
           /\ Cardinality({i \in CallsOf("readme") : calls[i][2] = repos[k].name}) = 1
           /\ Cardinality({i \in CallsOf("commits") : calls[i][2] = repos[k].name}) >= 1
           /\ {calls[i][3] : i \in {j \in CallsOf("file") : calls[j][2] = repos[k].name}}
                  = {possible_files[f] : f \in 1..Len(possible_files)}
    /\ pc \in {"events", "score"} => idx = Min(Len(repos), DeepLimit)
    /\ pc = "score" => CallsOf("events") # {}
    /\ (Done /\ ReturnedFull) =>
           /\ idx = Min(Len(repos), DeepLimit)
           /\ calls[Len(calls)][1] = "events"
           /\ result.value.repo_data = repos
           /\ DOMAIN result.value.lang_counter = ListedLanguages
           /\ \A lang \in ListedLanguages :
                  result.value.lang_counter[lang] = LanguageCount(lang)
           /\ result.value.has_ai =
                  (\/ ListedLanguages \cap AI_LANGUAGES # {}
                   \/ \E k \in 1..Len(repos) : RepoHits(repos[k], AI_KEYWORDS))
           /\ result.value.has_crypto =
                  (\/ ListedLanguages \cap CRYPTO_LANGUAGES # {}
                   \/ \E k \in 1..Len(repos) : RepoHits(repos[k], CRYPTO_KEYWORDS))

\* a listing longer than the window was analysed: five repositories inspected,
\* and the AI flag set by the language of the sixth alone
C6_Witness ==
    /\ Done /\ ReturnedFull
    /\ Len(repos) > DeepLimit
    /\ Cardinality(CallsOf("readme")) = DeepLimit
    /\ "Python" \in DOMAIN result.value.lang_counter
    /\ result.value.has_ai
    /\ \A k \in 1..DeepLimit : repos[k].language \notin {Some(l) : l \in AI_LANGUAGES}

---------------------------------------------------------------------------
(* The six category contributions, read off the state; account age as a    *)
(* numerator over DaysPerYear, the others in whole points                  *)

CatReadme == readme_score
CatCommit == commit_score
CatPrIssues == 2 * pr_count + issues_count
CatBioBlog ==
    IF \E k \in {"bio", "blog"} :
           /\ k \in DOMAIN Get(user_data)
           /\ Get(user_data)[k] \notin {None, Some("")}
    THEN 5 ELSE 0
CatAiCrypto == (IF has_ai THEN 3 ELSE 0) + (IF has_crypto THEN 3 ELSE 0)
CategorySum ==
    account_age_points
    + DaysPerYear * (CatReadme + CatCommit + CatPrIssues + CatBioBlog + CatAiCrypto)
CappedSum == Min(CategorySum, ScoreCap * DaysPerYear)
Abs(x) == IF x < 0 THEN 0 - x ELSE x

\* result.score, in hundredths
ReportedScore == result.value.score

\* the score range and its saturation
ScoreInRange ==
    /\ ReportedScore >= 0
    /\ ReportedScore <= 100 * 100
    /\ CategorySum >= ScoreCap * DaysPerYear => ReportedScore = 100 * 100

(* C1, as claimed: the returned score equals min(base_score, 30)/30*100    *)
(* exactly, base_score being the sum of the six category contributions,    *)
(* and lies in [0, 100].                                                   *)
C1_ScoreExact ==
    (Done /\ ReturnedFull) =>
        /\ base_score = CategorySum
        /\ ReportedScore * (ScoreCap * DaysPerYear) = CappedSum * 100 * 100
        /\ ScoreInRange

(* C1, amended: the returned score is min(base_score, 30)/30*100 rounded   *)
(* to two decimals (the hundredth nearest to it), base_score being the sum *)
(* of the six category contributions; it lies in [0, 100], is 100 whenever *)
(* base_score >= 30 and is never negative.                                 *)
C1_ScoreRounded ==
    (Done /\ ReturnedFull) =>
        /\ base_score = CategorySum
        /\ 2 * Abs(ReportedScore * (ScoreCap * DaysPerYear) - CappedSum * 100 * 100)
               <= ScoreCap * DaysPerYear
        /\ ScoreInRange

\* a result whose exact score is not a whole number of hundredths
C1_Witness ==
    /\ Done /\ ReturnedFull
    /\ CategorySum > 0 /\ CategorySum < ScoreCap * DaysPerYear
    /\ ReportedScore * (ScoreCap * DaysPerYear) # CappedSum * 100 * 100
    /\ ReportedScore > 0

\* the categories with a maximum of their own
FiveCategoriesCapped ==
    /\ readme_score >= 0 /\ readme_score <= ReadmePoints * DeepLimit
    /\ score_breakdown.readme_points = readme_score
    /\ commit_score >= 0 /\ commit_score <= CommitDayCap * DeepLimit
    /\ score_breakdown.commit_points = commit_score
    /\ account_age_points >= 0 /\ account_age_points <= AgeMaxPoints * DaysPerYear
    /\ (Done /\ ReturnedFull) =>
           /\ result.value.score_breakdown.account_age_points >= 0
           /\ result.value.score_breakdown.account_age_points <= AgeMaxPoints * 100
           /\ result.value.score_breakdown.readme_points \in 0..(ReadmePoints * DeepLimit)
           /\ result.value.score_breakdown.commit_points \in 0..(CommitDayCap * DeepLimit)
           /\ result.value.score_breakdown.profile_bio_blog_points \in {0, BioBlogPoints}
           /\ result.value.score_breakdown.ai_crypto_points \in {0, FlagPoints, 2 * FlagPoints}
           /\ base_score = CategorySum

(* C2, as claimed: each of the six category contributions is non-negative  *)
(* and capped at a fixed maximum before the sum; for pr_issues the most    *)
(* generous fixed maximum there is, the whole score budget of 30.          *)
C2_AllCategoriesCapped ==
    /\ FiveCategoriesCapped
    /\ (Done /\ ReturnedFull) =>
           result.value.score_breakdown.pr_issues_points \in 0..ScoreCap

(* C2, amended: each of the six category contributions is non-negative;    *)
(* account_age (10), readme (10), commit (25), profile_bio_blog (5) and    *)
(* ai_crypto (6) are capped at a fixed maximum before the sum, while       *)
(* pr_issues is 2 * pr_count + issues_count with no maximum of its own and *)
(* is limited only by the min(base_score, 30) of the final score.          *)
C2_CategoriesBounded ==
    /\ FiveCategoriesCapped
    /\ (Done /\ ReturnedFull) =>
           /\ result.value.score_breakdown.pr_issues_points >= 0
           /\ result.value.score_breakdown.pr_issues_points
                  = 2 * result.value.pull_requests_30d + result.value.issues_30d
           /\ result.value.pull_requests_30d + result.value.issues_30d <= Len(events)

\* five repositories at their maxima out of a longer listing, and more
\* pull-request points than the whole score budget
C2_Witness ==
    /\ Done /\ ReturnedFull
    /\ Len(repos) > DeepLimit
    /\ result.value.score_breakdown.readme_points = ReadmePoints * DeepLimit
    /\ result.value.score_breakdown.commit_points = CommitDayCap * DeepLimit
    /\ result.value.score_breakdown.pr_issues_points > ScoreCap

---------------------------------------------------------------------------
(* Commit cadence *)

\* the UTC calendar day of an instant: the d with d days <= instant < d + 1 days
UtcDay(date) == CHOOSE d \in 0..(Now \div HoursPerDay) : Days(d) <= date /\ date < Days(d + 1)
CommitDays == {UtcDay(commits[i].date) : i \in 1..Len(commits)}
CommitsOn(d) == Cardinality({i \in 1..Len(commits) : UtcDay(commits[i].date) = d})
DistinctDays == Cardinality(CommitDays)

\* the commit list in `commits` has been analysed
Analysed == CallsOf("commits") # {} /\ ~Threw

(* C7: analyze_commit_frequency groups the commits by UTC calendar day and *)
(* flags the result suspicious exactly when there is exactly one distinct  *)
(* day and more than 10 commits, or there are fewer than 5 distinct days   *)
(* and fewer than 20 commits: 11 commits on one day are suspicious, 3      *)
(* commits on 3 days are suspicious, 25 commits over 6 days are not.       *)
C7_SuspiciousRule ==
    Analysed =>
        /\ DOMAIN day_counts = CommitDays
        /\ \A d \in CommitDays : day_counts[d] = CommitsOn(d)
        /\ suspicious =
               (\/ DistinctDays = 1 /\ Len(commits) > 10
                \/ DistinctDays < 5 /\ Len(commits) < 20)
        /\ (DistinctDays = 1 /\ Len(commits) = 11) => suspicious
        /\ (DistinctDays = 3 /\ Len(commits) = 3) => suspicious
        /\ (DistinctDays = 6 /\ Len(commits) = 25) => ~suspicious

\* 20 commits or more on a single day: suspicious by the first rule alone
C7_Witness ==
    /\ Analysed
    /\ DistinctDays = 1 /\ Len(commits) >= 20
    /\ day_counts[CHOOSE d \in CommitDays : TRUE] = Len(commits)
    /\ suspicious

\* the step that analyses one repository's commits
CommitStep == pc = "commits" /\ pc' = "deps"

(* C8: for each inspected repository a non-suspicious commit history adds  *)
(* exactly min(distinct days, 5) to the commit category and appends no     *)
(* warning, a suspicious one adds 0 and appends exactly one warning naming *)
(* the repository; the commit category is the sum of these contributions   *)
(* over the at most 5 inspected repositories.                              *)
C8_CommitContribution ==
    /\ [][CommitStep =>
             LET name == repos[idx + 1].name
                 days == {UtcDay(commits'[i].date) : i \in 1..Len(commits')}
                 points == IF Cardinality(days) < 5 THEN Cardinality(days) ELSE 5
             IN  /\ idx < DeepLimit
                 /\ IF suspicious'
                    THEN /\ commit_score' = commit_score
                         /\ warnings' = Append(warnings, CommitWarning(name))
                    ELSE /\ commit_score' = commit_score + points
                         /\ warnings' = warnings
                 /\ score_breakdown'.commit_points = commit_score'
                 /\ score_breakdown'.readme_points = score_breakdown.readme_points]_vars
    /\ [][~CommitStep =>
             /\ commit_score' = commit_score
             /\ score_breakdown'.commit_points = score_breakdown.commit_points
             /\ \A k \in 1..Len(warnings') :
                    (k > Len(warnings) => warnings'[k].text # CommitWarning(None).text)]_vars
    /\ [](commit_score = 0 \/ CallsOf("commits") # {})
    /\ []((Done /\ ReturnedFull) =>
             result.value.score_breakdown.commit_points = commit_score)

\* six repositories listed, five inspected: some histories scored, one at the
\* cap of 5 and one below it, and some flagged
C8_Witness ==
    /\ Done /\ ReturnedFull
    /\ Len(repos) > DeepLimit
    /\ result.value.score_breakdown.commit_points = 5 + 4
    /\ Cardinality({k \in 1..Len(warnings) : warnings[k].text = CommitWarning(None).text}) = 3

---------------------------------------------------------------------------
(* README depth *)

\* the step that checks one repository's README
ReadmeStep == pc = "readme" /\ pc' = "commits"

\* the README text is at least 200 characters long and its lower-cased text
\* contains a keyword of the fixed set
LongWithKeyword(text) ==
    /\ Len(text) >= 200
    /\ \E k \in 1..Len(README_KEYWORDS) :
           \E at \in 1..Len(text) :
               /\ at + Len(README_KEYWORDS[k]) - 1 <= Len(text)
               /\ \A j \in 1..Len(README_KEYWORDS[k]) :
                      LowerChar(text[at + j - 1]) = README_KEYWORDS[k][j]

(* C9: for each inspected repository the README adds 2 points to the       *)
(* readme category exactly when the README text is present, at least 200   *)
(* characters long and its lower-cased text contains a keyword of the      *)
(* fixed set; otherwise it adds 0 and a warning naming the repository is   *)
(* appended.  The readme category never exceeds 10.                        *)
C9_ReadmeContribution ==
    /\ [][ReadmeStep =>
             LET name == repos[idx + 1].name
                 deep == readme' # None /\ LongWithKeyword(Get(readme'))
             IN  /\ IF deep
                    THEN /\ readme_score' = readme_score + 2
                         /\ warnings' = warnings
                    ELSE /\ readme_score' = readme_score
                         /\ warnings' = Append(warnings, ReadmeWarning(name))
                 /\ score_breakdown'.readme_points = readme_score'
                 /\ readme' = Some(Pad(SetupText, 199)) => ~deep
                 /\ readme' = Some(Pad(SetupText, 200)) => deep
                 /\ readme' = Some(Pad(<<"h","e","l","l","o">>, 250)) => ~deep]_vars
    /\ [][~ReadmeStep =>
             /\ readme_score' = readme_score
             /\ score_breakdown'.readme_points = score_breakdown.readme_points]_vars
    /\ [](readme_score <= 10 /\ score_breakdown.readme_points <= 10)
    /\ []((Done /\ ReturnedFull) =>
             /\ result.value.score_breakdown.readme_points = readme_score
             /\ result.value.score_breakdown.readme_points <= 10)

\* six repositories listed: five deep READMEs, the last of them exactly 200
\* characters long
C9_Witness ==
    /\ Done /\ ReturnedFull
    /\ Len(repos) > DeepLimit
    /\ readme = Some(Pad(SetupText, 200))
    /\ result.value.score_breakdown.readme_points = 10
    /\ result.value.warnings = <<>>

---------------------------------------------------------------------------
(* Account age *)

\* the account age in whole days of the analysed user
AccountAge == (Now - Get(Get(user_data).created_at)) \div HoursPerDay

\* the account-age points of an account of `a` whole days
PointsAtAge(a) == AccountAgePoints(UserBody(Days(a), None, None), Now)

(* C10: account-age points (here a numerator over 365) are exactly 10 for  *)
(* every account older than 365 days and age_days/365*10 for every younger *)
(* one; as a function of the age in whole days they are monotonically      *)
(* non-decreasing, never exceed 10 and are continuous at the 365-day       *)
(* boundary: an account of exactly 365 days gets 10.                       *)
C10_AccountAgeRamp ==
    (Done /\ ReturnedFull) =>
        /\ AccountAge > 365 => account_age_points = 10 * 365
        /\ AccountAge <= 365 => account_age_points = AccountAge * 10
        /\ AccountAge = 365 => account_age_points = 10 * 365
        /\ account_age_points <= 10 * 365
        /\ \A a \in 0..AccountAge : PointsAtAge(a) <= account_age_points
        /\ AccountAge > 0 =>
               account_age_points - PointsAtAge(AccountAge - 1) \in {0, 10}
        /\ 2 * Abs(result.value.score_breakdown.account_age_points * 365
                   - account_age_points * 100) <= 365
        /\ result.value.score_breakdown.account_age_points <= 10 * 100

\* an account of exactly 365 days, an hour short of 366
C10_Witness ==
    /\ Done /\ ReturnedFull
    /\ AccountAge = 365
    /\ Now - Get(Get(user_data).created_at) > Days(365)
    /\ account_age_points = 10 * 365
    /\ result.value.score_breakdown.account_age_points = 10 * 100

---------------------------------------------------------------------------
(* The 30-day window of pull requests and issues *)

\* the cutoff instant of an analysis made at Now
Cutoff == Now - 30 * 24

\* positions of the listed events created at or after the cutoff
InWindow == {i \in DOMAIN events : events[i].created_at >= Cutoff}

\* number of events in the window of type t
Counted(t) == Cardinality({i \in InWindow : events[i].type = t})

\* the event list has been analysed
EventsAnalysed == pc \in {"score", "done"} /\ ~Threw

(* C11: an event is counted exactly when its creation time is at or after  *)
(* the cutoff now - 30 days (an event at the cutoff instant is counted,    *)
(* any older event is ignored); a counted PullRequestEvent adds one to the *)
(* PR count, a counted IssuesEvent one to the issue count, any other type  *)
(* neither; and pr_issues_points = pr_count * 2 + issue_count.             *)
C11_WindowedCounts ==
    /\ EventsAnalysed =>
           /\ pr_count = Counted("PullRequestEvent")
           /\ issues_count = Counted("IssuesEvent")
           /\ pr_count + issues_count <= Cardinality(InWindow)
    /\ (Done /\ ReturnedFull) =>
           /\ result.value.pull_requests_30d = Counted("PullRequestEvent")
           /\ result.value.issues_30d = Counted("IssuesEvent")
           /\ result.value.score_breakdown.pr_issues_points
                  = Counted("PullRequestEvent") * 2 + Counted("IssuesEvent")

\* a pull request at the cutoff instant is counted, an older one and a push
\* inside the window are not
C11_Witness ==
    /\ Done /\ ReturnedFull
    /\ \E i, j, k \in DOMAIN events :
           /\ events[i].type = "PullRequestEvent" /\ events[i].created_at = Cutoff
           /\ events[j].type = "PullRequestEvent" /\ events[j].created_at < Cutoff
           /\ events[k].type = "PushEvent" /\ events[k].created_at > Cutoff
    /\ result.value.pull_requests_30d = 1
    /\ result.value.issues_30d = 0
    /\ result.value.score_breakdown.pr_issues_points = 2

---------------------------------------------------------------------------
(* AI and crypto detection *)

\* repository r has a lower-cased topic in the keyword set, or a lower-cased
\* description containing a keyword of it
KeywordHit(r, keywords) ==
    \/ \E i \in DOMAIN r.topics : Lower(r.topics[i]) \in keywords
    \/ /\ r.description # None
       /\ \E kw \in keywords : Contains(Lower(Get(r.description)), kw)

\* the primary languages observed in the first n listed repositories
ObservedLanguages(n) ==
    {Get(repos[i].language) : i \in {j \in 1..n : repos[j].language # None}}

\* the flag as the first n listed repositories determine it
Flagged(n, keywords, languages) ==
    \/ \E i \in 1..n : KeywordHit(repos[i], keywords)
    \/ ObservedLanguages(n) \cap languages # {}

Points(flag) == IF flag THEN 3 ELSE 0

(* C12: has_ai (resp. has_crypto) is true exactly when some repository of  *)
(* the full list has a lower-cased topic in the AI (resp. crypto) keyword  *)
(* set, or a lower-cased description containing such a keyword, or the     *)
(* observed primary languages intersect the AI (resp. crypto) language     *)
(* set; a flag set by one repository is not cleared by a later one; the    *)
(* ai_crypto category is 3 for each flag that is true.                     *)
C12_FlagsByMembership ==
    (Done /\ ReturnedFull) =>
        /\ result.value.has_ai
               = Flagged(Len(repos), AI_KEYWORDS,
                         {"Python", "JavaScript", "TypeScript", "Rust", "C++", "Java"})
        /\ result.value.has_crypto
               = Flagged(Len(repos), CRYPTO_KEYWORDS,
                         {"Solidity", "Rust", "JavaScript", "TypeScript", "Go", "C++"})
        /\ \A n \in 0..Len(repos) :
               /\ detect_languages(Prefix(repos, n)).has_ai => result.value.has_ai
               /\ detect_languages(Prefix(repos, n)).has_crypto => result.value.has_crypto
        /\ (\E i \in DOMAIN repos : \E t \in DOMAIN repos[i].topics :
               repos[i].topics[t] = <<"P","y","T","o","r","c","h">>)
               => result.value.has_ai
        /\ (\E i \in DOMAIN repos : repos[i].language = Some("Solidity"))
               => result.value.has_crypto
        /\ result.value.score_breakdown.ai_crypto_points
               = Points(result.value.has_ai) + Points(result.value.has_crypto)
        /\ result.value.score_breakdown.ai_crypto_points \in {0, 3, 6}

\* a topic of the first repository sets has_ai, and the two plain-language
\* repositories after it leave it set
C12_Witness ==
    /\ Done /\ ReturnedFull
    /\ Len(repos) = 3
    /\ repos[1].topics = << <<"P","y","T","o","r","c","h">> >>
    /\ repos[2].language = Some("Ruby")
    /\ repos[3].topics = << <<"t","o","r","c","h","v","i","s","i","o","n">> >>
    /\ result.value.has_ai
    /\ ~result.value.has_crypto
    /\ result.value.score_breakdown.ai_crypto_points = 3

---------------------------------------------------------------------------
(* The breakdown and the score *)

\* the step that scans one repository's dependency files
DepsStep == pc = "deps"

\* the six values of a breakdown, account age replaced by its value before
\* rounding (a numerator over 365), summed as a numerator over 365
BreakdownSum(b) ==
    account_age_points
    + 365 * (b.readme_points + b.commit_points + b.pr_issues_points
             + b.profile_bio_blog_points + b.ai_crypto_points)

(* C13: the reported breakdown accounts for the reported score.  After     *)
(* every iteration of the per-repository loop the breakdown's              *)
(* readme_points equals the running readme_score and its commit_points the *)
(* running commit_score; in the returned result the base score normalised  *)
(* into the score is exactly the sum of the six values of the breakdown,   *)
(* account age taken before its two-decimal rounding; dependency-scan      *)
(* findings change neither the breakdown nor the score.                    *)
C13_BreakdownAccountsForScore ==
    /\ [](/\ score_breakdown.readme_points = readme_score
          /\ score_breakdown.commit_points = commit_score)
    /\ []((Done /\ ReturnedFull) =>
             LET b == result.value.score_breakdown
                 capped == Min(BreakdownSum(b), 30 * 365)
             IN  /\ DOMAIN b = BreakdownFields
                 /\ base_score = BreakdownSum(b)
                 /\ 2 * Abs(b.account_age_points * 365 - account_age_points * 100) <= 365
                 /\ 2 * Abs(result.value.score * (30 * 365) - capped * 100 * 100)
                        <= 30 * 365)
    /\ [][DepsStep =>
             /\ score_breakdown' = score_breakdown
             /\ readme_score' = readme_score
             /\ commit_score' = commit_score
             /\ base_score' = base_score]_vars

\* two repositories, dependencies found in one of them, a deep README, a
\* steady and a suspicious commit list, a biography and recent events: every
\* category but ai_crypto contributes and the sum stays under the cap
C13_Witness ==
    /\ Done /\ ReturnedFull
    /\ Len(repos) = 2
    /\ Len(result.value.readme_checks) = 1
    /\ result.value.score_breakdown.readme_points = 2
    /\ result.value.score_breakdown.commit_points = 5
    /\ result.value.score_breakdown.pr_issues_points = 3
    /\ result.value.score_breakdown.profile_bio_blog_points = 5
    /\ result.value.score_breakdown.account_age_points = 274
    /\ base_score = 1000 + 365 * 15
    /\ result.value.score = 5913

=============================================================================
